---- MODULE Spec2Model ----
(***************************************************************************)
(* Model of the native-operator runtime of BrainPy:                        *)
(*   - brainpy/_src/dependency_check.py : the version-gated loader of the  *)
(*     optional brainpylib extension (import_brainpylib_cpu_ops /          *)
(*     import_brainpylib_gpu_ops), run by several threads;                 *)
(*   - extensions/brainpylib/operator/cpu_op.py : register_cpu_op, the     *)
(*     eager rule, the translation rule and the trampoline compiler.       *)
(* Both write the backend's per-platform call-target namespace.            *)
(***************************************************************************)
EXTENDS Integers, Sequences, FiniteSets, TLC

\* ---------------------------------------------------------------- bounds
NumThreads == 2
NumSymbols == 2
MaxOps == 2      \* calls of register_cpu_op
MaxLower == 2    \* lowerings (each compiles a trampoline)
MaxSyn == 3      \* synapses: the length of syn_values and post_ids
MaxPost == 2     \* post_num
MaxPre == 2      \* the length of an array pre_values

Threads == 1..NumThreads
Symbols == 1..NumSymbols
Platforms == {"cpu", "gpu"}

\* Python's None, and the absence of the package on disk.
None == <<>>
NotInstalled == <<>>

\* ------------------------------------------------------- version strings
\* A version is the triple of its numeric components; brainpylib.__version__
\* is the string that writes them in decimal, joined by dots. Characters are
\* their ASCII codes ('.' = 46, '0' = 48).
Versions == {<<0, 1, 1>>, <<0, 1, 9>>, <<0, 1, 10>>, <<0, 2, 0>>}

RECURSIVE Digits(_)
Digits(n) == IF n < 10 THEN <<48 + n>> ELSE Digits(n \div 10) \o <<48 + (n % 10)>>

VersionStr(v) == Digits(v[1]) \o <<46>> \o Digits(v[2]) \o <<46>> \o Digits(v[3])

\* Python's str.__lt__: lexicographic on code points, a proper prefix is less.
RECURSIVE StrLess(_, _)
StrLess(a, b) ==
  IF b = <<>> THEN FALSE
  ELSE IF a = <<>> THEN TRUE
  ELSE IF Head(a) # Head(b) THEN Head(a) < Head(b)
  ELSE StrLess(Tail(a), Tail(b))

\* _minimal_brainpylib_version = '0.1.10'
minimal_brainpylib_version == VersionStr(<<0, 1, 10>>)

\* ------------------------------------------------------------------ state
VARIABLES
  installed,       \* the brainpylib on disk: NotInstalled or its version
  sysModules,      \* the brainpylib module of this process (sys.modules): None or its version
  brainpylib_ops,  \* the module globals brainpylib_cpu_ops / brainpylib_gpu_ops, by platform
  targets,         \* the backend's call-target namespace of each platform: <<name, capsule>> pairs
  pc, plat, idx,   \* each thread's position in the loader, its platform, its loop index
  regCount,        \* history: calls of register_custom_call_target made by the loader, per platform and symbol
  versionPassed,   \* history: some call for the platform got past the version gate (lines 53-56)
  nReturned,       \* history: calls that returned a handle for the platform (counted up to 2)
  lastResult,      \* history: outcome of the last finished call for the platform
  snap,            \* history: handle and namespace of the platform of the call begun last, as it began
  callRegs,        \* history: register calls made since the call begun last began
  callLoaded,      \* history: the import statement has run since the call begun last began
  lambda_no,       \* cpu_op.py's module global _lambda_no
  prims,           \* the Primitive objects made by register_cpu_op, in order; an object is its index
  translations,    \* xla.backend_specific_translations['cpu']: <<key, rule>> pairs
  uid,             \* trampolines compiled so far (numba numbers each compiled function)
  lowered,         \* the call nodes the translation rule has returned
  lastRun,         \* history: what the latest step evaluated or ran, if it called an operator
  brainpylib,      \* operators.py's module global `brainpylib`: Unbound, None or the module (its version)
  lastEvent,       \* history: the latest call of an event-driven operator
  mathCall,        \* history: the latest call of a synaptic operator, its arguments and its result
  taichi_installed, \* the taichi on disk: NotInstalled or its version
  taichi,          \* dependency_check.py's module global `taichi`: None or the module (its version)
  lastTaichi       \* history: the latest call of import_taichi

loaderVars == <<installed, sysModules, brainpylib_ops, pc, plat, idx,
                regCount, versionPassed, nReturned, lastResult, snap,
                callRegs, callLoaded>>

opVars == <<lambda_no, prims, translations, uid, lowered, lastRun>>

eventVars == <<brainpylib, lastEvent>>

mathVars == <<mathCall>>

taichiVars == <<taichi_installed, taichi, lastTaichi>>

nonLoaderVars == <<opVars, eventVars, mathVars, taichiVars>>
nonOpVars == <<loaderVars, eventVars, mathVars, taichiVars>>

vars == <<loaderVars, targets, opVars, eventVars, mathVars, taichiVars>>

brainpylib_cpu_ops == brainpylib_ops["cpu"]
brainpylib_gpu_ops == brainpylib_ops["gpu"]

\* is_brainpylib_gpu_installed(): False if brainpylib_gpu_ops is None else True
is_brainpylib_gpu_installed == IF brainpylib_gpu_ops = None THEN FALSE ELSE TRUE

Failures == {"ImportError", "SystemError", "CheckError"}

\* The capsule registrations() gives for an exported symbol: the address of the
\* symbol in the loaded library.
ExtName(s) == <<"brainpylib", s>>
ExtCapsule(p, s) == <<"addr", p, s>>

\* xla_client.register_custom_call_target(name, capsule, platform): the backend
\* binds the name to the capsule in the platform's namespace.
register_on_every_platform(ns, name, capsule, p) ==
  [cpu |-> {e \in ns.cpu : e[1] # name} \cup {<<name, capsule>>},
   gpu |-> {e \in ns.gpu : e[1] # name} \cup {<<name, capsule>>}]
register_custom_call_target(ns, name, capsule, p) ==
  [ns EXCEPT ![p] = {e \in @ : e[1] # name} \cup {<<name, capsule>>}]

Names(ns, p) == {e[1] : e \in ns[p]}

LoaderInit ==
  /\ installed \in {NotInstalled} \cup Versions
  /\ sysModules = None
  /\ brainpylib_ops = [p \in Platforms |-> None]
  /\ pc = [t \in Threads |-> "idle"]
  /\ plat = [t \in Threads |-> "cpu"]
  /\ idx = [t \in Threads |-> 1]
  /\ regCount = [p \in Platforms |-> [s \in Symbols |-> 0]]
  /\ versionPassed = [p \in Platforms |-> FALSE]
  /\ nReturned = [p \in Platforms |-> 0]
  /\ lastResult = [p \in Platforms |-> "none"]
  /\ snap = [plat |-> "cpu", handle |-> None, names |-> {}]
  /\ callRegs = 0
  /\ callLoaded = FALSE

\* No operator has been evaluated or run by the latest step.
NoRun == [path |-> "none", prim |-> 0, ins |-> <<>>, raised |-> FALSE, descs |-> <<>>,
          kernel |-> 0, calls |-> 0, outputs |-> <<>>, bare |-> FALSE]

OpInit ==
  /\ lambda_no = 0
  /\ prims = <<>>
  /\ translations = {}
  /\ uid = 0
  /\ lowered = {}
  /\ lastRun = NoRun

\* brainpy.math.operators has not been imported: its global is not bound yet.
Unbound == <<"unbound">>

\* No event-driven operator has been called yet.
NoEvent == [op |-> "none", seen |-> <<>>, disk |-> <<>>, raised |-> "none",
            converted |-> FALSE, kernel_calls |-> 0, absentFailed |-> FALSE]

EventInit ==
  /\ brainpylib = Unbound
  /\ lastEvent = NoEvent

\* No synaptic operator has been called yet.
NoMath == [op |-> "none", values |-> <<>>, ids |-> <<>>, num |-> 0,
           indices_are_sorted |-> TRUE, defined |-> TRUE, result |-> <<>>]

MathInit == mathCall = NoMath

NoTaichi == [op |-> "none", cached |-> FALSE, version |-> None, result |-> "none"]

TaichiInit ==
  /\ taichi_installed = NotInstalled
  /\ taichi = None
  /\ lastTaichi = NoTaichi

Init ==
  /\ LoaderInit
  /\ OpInit
  /\ EventInit
  /\ MathInit
  /\ TaichiInit
  /\ targets = [p \in Platforms |-> {}]

\* ------------------------------------------------------------ environment
\* brainpylib is installed, upgraded, downgraded or removed on disk.
Install(v) ==
  /\ UNCHANGED nonLoaderVars
  /\ installed # v
  /\ installed' = v
  /\ UNCHANGED <<sysModules, brainpylib_ops, targets, pc, plat, idx,
                 regCount, versionPassed, nReturned, lastResult, snap,
                 callRegs, callLoaded>>

\* ----------------------------------------------------------------- loader
\* A thread calls import_brainpylib_cpu_ops() (p = "cpu") or
\* import_brainpylib_gpu_ops() (p = "gpu"). With seq, calls do not overlap.
CallLoader(t, p, seq) ==
  /\ UNCHANGED nonLoaderVars
  /\ pc[t] = "idle"
  /\ seq => \A u \in Threads : pc[u] = "idle"
  /\ pc' = [pc EXCEPT ![t] = "check"]
  /\ plat' = [plat EXCEPT ![t] = p]
  /\ snap' = [plat |-> p, handle |-> brainpylib_ops[p], names |-> Names(targets, p)]
  /\ callRegs' = 0
  /\ callLoaded' = FALSE
  /\ UNCHANGED <<installed, sysModules, brainpylib_ops, targets, idx,
                 regCount, versionPassed, nReturned, lastResult>>

\* The thread's call ends by raising `err`; its frame is dropped.
Raise(t, err) ==
  /\ pc' = [pc EXCEPT ![t] = "idle"]
  /\ plat' = [plat EXCEPT ![t] = "cpu"]
  /\ lastResult' = [lastResult EXCEPT ![plat[t]] = err]

\* `if brainpylib_cpu_ops is None:`
HandleCachedNever(p) == FALSE
HandleCached(p) == brainpylib_ops[p] # None

CheckNone(t) ==
  /\ UNCHANGED nonLoaderVars
  /\ pc[t] = "check"
  /\ pc' = [pc EXCEPT ![t] = IF HandleCached(plat[t]) THEN "ret" ELSE "import"]
  /\ UNCHANGED <<installed, sysModules, brainpylib_ops, targets, plat, idx,
                 regCount, versionPassed, nReturned, lastResult, snap,
                 callRegs, callLoaded>>

\* `from brainpylib import cpu_ops as brainpylib_cpu_ops`: the import finds the
\* module of this process or loads the one on disk, and the statement binds the
\* module global at once; with no brainpylib the ImportError is re-raised.
ImportOps(t) ==
  /\ UNCHANGED nonLoaderVars
  /\ pc[t] = "import"
  /\ IF sysModules = None /\ installed = NotInstalled
       THEN /\ Raise(t, "ImportError")
            /\ UNCHANGED <<sysModules, brainpylib_ops, callLoaded>>
       ELSE /\ sysModules' = IF sysModules = None THEN installed ELSE sysModules
            /\ brainpylib_ops' = [brainpylib_ops EXCEPT ![plat[t]] = <<"brainpylib", plat[t], "ops">>]
            /\ callLoaded' = TRUE
            /\ pc' = [pc EXCEPT ![t] = "reg"]
            /\ UNCHANGED <<plat, lastResult>>
  /\ UNCHANGED <<installed, targets, idx, regCount, versionPassed, nReturned,
                 snap, callRegs>>

\* One turn of `for _name, _value in brainpylib_cpu_ops.registrations().items()`.
RegisterSymbol(t) ==
  /\ UNCHANGED nonLoaderVars
  /\ pc[t] = "reg"
  /\ targets' = register_custom_call_target(targets, ExtName(idx[t]),
                                            ExtCapsule(plat[t], idx[t]), plat[t])
  /\ regCount' = [regCount EXCEPT ![plat[t]][idx[t]] = @ + 1]
  /\ callRegs' = callRegs + 1
  /\ IF idx[t] < NumSymbols
       THEN /\ idx' = [idx EXCEPT ![t] = @ + 1]
            /\ pc' = pc
       ELSE /\ idx' = [idx EXCEPT ![t] = 1]
            /\ pc' = [pc EXCEPT ![t] = "version"]
  /\ UNCHANGED <<installed, sysModules, brainpylib_ops, plat,
                 versionPassed, nReturned, lastResult, snap, callLoaded>>

\* `brainpylib.__version__ < _minimal_brainpylib_version`, on strings.
VersionTooOld(v) == StrLess(VersionStr(v), minimal_brainpylib_version)

\* `import brainpylib`, the version gate, then brainpylib.check_brainpy_version()
\* when the library has one, which passes or raises.
VersionCheck(t) ==
  /\ UNCHANGED nonLoaderVars
  /\ pc[t] = "version"
  /\ IF VersionTooOld(sysModules)
       THEN /\ Raise(t, "SystemError")
            /\ UNCHANGED versionPassed
       ELSE \E ok \in BOOLEAN :
              IF ok
                THEN /\ pc' = [pc EXCEPT ![t] = "ret"]
                     /\ versionPassed' = [versionPassed EXCEPT ![plat[t]] = TRUE]
                     /\ UNCHANGED <<plat, lastResult>>
                ELSE /\ Raise(t, "CheckError")
                     /\ UNCHANGED versionPassed
  /\ UNCHANGED <<installed, sysModules, brainpylib_ops, targets, idx,
                 regCount, nReturned, snap, callRegs, callLoaded>>

\* `return brainpylib_cpu_ops`: the call returns the module global.
Return(t) ==
  /\ UNCHANGED nonLoaderVars
  /\ pc[t] = "ret"
  /\ pc' = [pc EXCEPT ![t] = "idle"]
  /\ plat' = [plat EXCEPT ![t] = "cpu"]
  /\ lastResult' = [lastResult EXCEPT ![plat[t]] =
                      IF brainpylib_ops[plat[t]] = None THEN "None" ELSE "handle"]
  /\ nReturned' = [nReturned EXCEPT ![plat[t]] = IF @ < 2 THEN @ + 1 ELSE @]
  /\ UNCHANGED <<installed, sysModules, brainpylib_ops, targets, idx,
                 regCount, versionPassed, snap, callRegs, callLoaded>>

LoaderStep(t) ==
  \/ CheckNone(t)
  \/ ImportOps(t)
  \/ RegisterSymbol(t)
  \/ VersionCheck(t)
  \/ Return(t)

Environment == \E v \in {NotInstalled} \cup Versions : Install(v)

\* Threads call the loader concurrently.
Next ==
  \/ Environment
  \/ \E t \in Threads, p \in Platforms : CallLoader(t, p, FALSE)
  \/ \E t \in Threads : LoaderStep(t)

Spec == Init /\ [][Next]_vars

\* Calls of the loader follow one another (no two overlap).
SeqNext ==
  \/ Environment
  \/ \E t \in Threads, p \in Platforms : CallLoader(t, p, TRUE)
  \/ \E t \in Threads : LoaderStep(t)

SeqSpec == Init /\ [][SeqNext]_vars

\* ------------------------------------------------------------- operators
\* The kernels handed to register_cpu_op: two anonymous functions and two
\* different functions of the same __name__, all plain Python functions
\* (none is a numba Dispatcher yet).
Kernels == {[id |-> 1, name |-> "<lambda>", dispatcher |-> FALSE],
            [id |-> 2, name |-> "<lambda>", dispatcher |-> FALSE],
            [id |-> 3, name |-> "custom_op", dispatcher |-> FALSE],
            [id |-> 4, name |-> "custom_op", dispatcher |-> FALSE]}

\* Array descriptors (ShapedArray): shape and dtype.
Desc(n) == [shape |-> <<n>>, dtype |-> "float32"]
Descs == {Desc(1), Desc(2)}

\* The out_shapes argument: a callable (returning its inputs) or a single
\* descriptor.
OutSpecs == {[kind |-> "callable", val |-> "ins"],
             [kind |-> "desc", val |-> Desc(1)]}

\* The operand lists an operator is called / lowered with.
Inputs == {<<d>> : d \in Descs}

\* isinstance(x, ShapedArray)
IsDescAny(x) == TRUE
IsDesc(x) == x \in Descs

\* A Python value that is no descriptor (an int).
NotADesc == [pyint |-> 3]

\* Every form of the out_shapes argument: the accepted ones (a callable that
\* returns the tuple of its inputs, a callable that returns the bare
\* descriptor of its first input, a descriptor, a tuple of descriptors), a
\* tuple holding a non-descriptor, and a value of another type.
AllOutSpecs == {[kind |-> "callable", val |-> "ins"],
                [kind |-> "callable", val |-> "first"],
                [kind |-> "desc", val |-> Desc(1)],
                [kind |-> "seq", val |-> <<Desc(1), Desc(2)>>],
                [kind |-> "seq", val |-> <<Desc(1), NotADesc>>],
                [kind |-> "other", val |-> NotADesc]}

\* out_shapes(*input_shapes) for a callable out_shapes: the value returned and
\* whether it is a collections.abc.Collection (a tuple is, a ShapedArray is not).
CallOutShapes(fn, ins) ==
  IF fn = "ins" THEN [coll |-> TRUE, val |-> ins]
  ELSE [coll |-> FALSE, val |-> ins[1]]

\* Lines 134-137: a value that is no Collection is wrapped into a list.
WrapShapes(shapes) == IF ~shapes.coll THEN <<shapes.val>> ELSE shapes.val

\* abs_eval_rule (closure over out_shapes) applied to the input descriptors:
\* a sequence of descriptors, or "ValueError".
abs_eval_rule(out_shapes, ins) ==
  IF out_shapes.kind = "callable"
    THEN WrapShapes(CallOutShapes(out_shapes.val, ins))
  ELSE IF out_shapes.kind = "desc"
    THEN WrapShapes([coll |-> TRUE, val |-> <<out_shapes.val>>])
  ELSE IF out_shapes.kind = "seq"
    THEN IF \A i \in DOMAIN out_shapes.val : IsDesc(out_shapes.val[i])
           THEN WrapShapes([coll |-> TRUE, val |-> out_shapes.val])
           ELSE "ValueError"
  ELSE "ValueError"

\* The name given to core.Primitive: f'_lambda_func{_lambda_no}' for an
\* anonymous plain function, func.__name__ otherwise.
PrimName(func) ==
  IF ~func.dispatcher /\ func.name = "<lambda>"
    THEN <<"_lambda_func", lambda_no>>
    ELSE <<func.name>>

\* The key of a Primitive in the translation table: the object itself
\* (Primitive defines no __eq__ / __hash__).
TransKeyByName(prim, name) == name
TransKey(prim, name) == prim

DictSet(d, k, v) == {e \in d : e[1] # k} \cup {<<k, v>>}
DictHas(d, k) == \E e \in d : e[1] = k
DictGet(d, k) == (CHOOSE e \in d : e[1] = k)[2]

\* The backend's lookup of an operator's rule: backend_specific_translations['cpu'][prim].
HasTranslation(prim) == DictHas(translations, TransKey(prim, prims[prim].name))
translation_rule(prim) == DictGet(translations, TransKey(prim, prims[prim].name))

\* A registration that would compile and register a trampoline at once.
register_cpu_op_compiling(func, out_shapes) ==
  /\ UNCHANGED nonOpVars
  /\ Len(prims) < MaxOps
  /\ prims' = Append(prims, [name |-> PrimName(func), func |-> func, out_shapes |-> out_shapes])
  /\ translations' = DictSet(translations, TransKey(Len(prims) + 1, PrimName(func)),
                             [func |-> func, out_shapes |-> out_shapes])
  /\ targets' = register_custom_call_target(targets, <<"cfunc.xla_cpu_custom_call_target", 0>>,
                                            [func |-> func, ins |-> <<>>, out |-> <<>>], "cpu")
  /\ lastRun' = NoRun
  /\ UNCHANGED <<lambda_no, uid, lowered>>

\* register_cpu_op(func, out_shapes): makes the Primitive, binds its abstract
\* evaluation and its implementation (closures over func and out_shapes) and
\* stores partial(_func_translation, func, abs_eval_rule) in the cpu table.
register_cpu_op(func, out_shapes) ==
  /\ UNCHANGED nonOpVars
  /\ Len(prims) < MaxOps
  /\ LET prim == Len(prims) + 1
         name == PrimName(func)
     IN /\ prims' = Append(prims, [name |-> name, func |-> func, out_shapes |-> out_shapes])
        /\ translations' = DictSet(translations, TransKey(prim, name),
                                   [func |-> func, out_shapes |-> out_shapes])
  /\ lastRun' = NoRun
  /\ UNCHANGED <<lambda_no, uid, lowered, targets>>

\* Calling the operator outside a trace: prim.bind runs the eval_rule bound to
\* the Primitive object, which evaluates the output descriptors with its
\* abs_eval_rule, allocates the outputs and calls its kernel. The call changes
\* no state; its value here is the kernel it runs and the descriptors of the
\* views the kernel gets, or "ValueError".
eval_rule(prim, ins) ==
  LET out == abs_eval_rule(prims[prim].out_shapes, ins)
  IN IF out = "ValueError" THEN "ValueError"
     ELSE [kernel |-> prims[prim].func.id, ins |-> ins, out |-> out]

\* _compile_cpu_signature: the name numba gives the compiled trampoline
\* (xla_c_rule.native_name, numbered per compilation) and the capsule of its
\* address; the trampoline calls func on views of the captured shapes / dtypes.
TargetNameShared(n) == <<"cfunc.xla_cpu_custom_call_target", 0>>
TargetName(n) == <<"cfunc.xla_cpu_custom_call_target", n>>
Capsule(func, ins, out) == [func |-> func, ins |-> ins, out |-> out]

\* The backend lowers a call of the operator with operands `ins`: it finds the
\* operator's rule in the cpu table and runs _func_translation, which compiles
\* and registers a trampoline and returns the call node.
Lower(prim, ins) ==
  /\ UNCHANGED nonOpVars
  /\ prim \in 1..Len(prims)
  /\ uid < MaxLower
  /\ HasTranslation(prim)
  /\ LET rule == translation_rule(prim)
         out == abs_eval_rule(rule.out_shapes, ins)
         target_name == TargetName(uid + 1)
     IN /\ out # "ValueError"
        /\ uid' = uid + 1
        /\ targets' = register_custom_call_target(targets, target_name,
                                                  Capsule(rule.func, ins, out), "cpu")
        /\ lowered' = lowered \cup {[prim |-> prim, ins |-> ins, target |-> target_name]}
  /\ lastRun' = NoRun
  /\ UNCHANGED <<lambda_no, prims, translations>>

\* The compiled program runs a call node: the backend calls the target the
\* node names, whose trampoline (xla_cpu_custom_call_target) calls the captured
\* kernel on views of the captured shapes. The call changes no state; its value
\* is the kernel run and the descriptors of its views.
xla_cpu_custom_call_target(node) ==
  LET capsule == DictGet(targets["cpu"], node.target)
  IN [kernel |-> capsule.func.id, ins |-> capsule.ins, out |-> capsule.out]

OpNext ==
  \/ \E func \in Kernels, out_shapes \in OutSpecs : register_cpu_op(func, out_shapes)
  \/ \E prim \in 1..MaxOps, ins \in Inputs : Lower(prim, ins)

\* Operators are registered, called and lowered in a process that does not
\* touch the extension loader.
OpSpecInit == Init /\ installed = NotInstalled

OpSpec == OpSpecInit /\ [][OpNext]_vars

\* ------------------------------------------------- abstract evaluation
\* A call of the operator inside a trace: prim.bind evaluates the abstract
\* rule bound by def_abstract_eval on the descriptors of the operands.
AbstractEval(prim, ins) ==
  /\ UNCHANGED nonOpVars
  /\ prim \in 1..Len(prims)
  /\ LET out == abs_eval_rule(prims[prim].out_shapes, ins)
     IN lastRun' = [NoRun EXCEPT !.path = "abstract", !.prim = prim, !.ins = ins,
                                 !.raised = (out = "ValueError"),
                                 !.descs = IF out = "ValueError" THEN <<>> ELSE out]
  /\ UNCHANGED <<lambda_no, prims, translations, uid, lowered, targets>>

RegNext ==
  \/ \E func \in Kernels, out_shapes \in AllOutSpecs : register_cpu_op(func, out_shapes)
  \/ \E prim \in 1..MaxOps, ins \in Inputs : AbstractEval(prim, ins)

\* Operators are registered with every form of output specification and
\* their abstract rule is evaluated.
RegSpec == OpSpecInit /\ [][RegNext]_vars

\* ------------------------------------------------------- kernel execution
\* Arrays are the sequences of their elements. The operand passed for a
\* descriptor of shape (n,) is the array 1..n.
Array(d) == [i \in 1..d.shape[1] |-> i]

\* np.zeros(shape.shape, dtype=shape.dtype)
zeros(d) == [i \in 1..d.shape[1] |-> 0]

\* A buffer the backend allocates for an output of a custom call; nothing in
\* the trampoline initialises it, so it holds what the memory held (g).
Garbage == {0, 9}
backend_buffer(d, g) == [i \in 1..d.shape[1] |-> g]

\* The output positions each kernel assigns: kernel 1 writes every position,
\* kernel 2 only the first, kernel 3 none, kernel 4 adds to every position.
Written(id, buf) ==
  IF id = 2 THEN {i \in DOMAIN buf : i = 1}
  ELSE IF id = 3 THEN {}
  ELSE DOMAIN buf

\* func(outputs, inputs): the kernel writes into the output views in place;
\* the value is the content of the outputs afterwards.
func_to_call(func, outputs, inputs) ==
  [o \in DOMAIN outputs |->
     [i \in DOMAIN outputs[o] |->
        IF i \notin Written(func.id, outputs[o]) THEN outputs[o][i]
        ELSE IF func.id = 4 THEN outputs[o][i] + 1
        ELSE inputs[1][1] + 4]]

\* The buffers eval_rule allocates for the outputs.
AllocGarbage(d) == backend_buffer(d, 9)
AllocOutput(d) == zeros(d)

\* bind_primitive: result[0] if len(result) == 1 else result.
ReturnsBare(result) == Len(result) = 1

\* Calling the operator outside a trace (bind_primitive -> prim.bind ->
\* eval_rule): the abstract rule is evaluated on the operands, one zero-filled
\* buffer is allocated per descriptor, the kernel is called once on
\* (outputs, inputs) and the outputs are returned.
EagerCall(prim, ins) ==
  /\ UNCHANGED nonOpVars
  /\ prim \in 1..Len(prims)
  /\ LET output_shapes == abs_eval_rule(prims[prim].out_shapes, ins)
     IN IF output_shapes = "ValueError"
          THEN lastRun' = [NoRun EXCEPT !.path = "eager", !.prim = prim, !.ins = ins,
                                        !.raised = TRUE]
          ELSE LET outputs == [o \in DOMAIN output_shapes |-> AllocOutput(output_shapes[o])]
                   inputs == [a \in DOMAIN ins |-> Array(ins[a])]
                   result == func_to_call(prims[prim].func, outputs, inputs)
               IN lastRun' = [path |-> "eager", prim |-> prim, ins |-> ins, raised |-> FALSE,
                              descs |-> output_shapes, kernel |-> eval_rule(prim, ins).kernel,
                              calls |-> 1, outputs |-> result, bare |-> ReturnsBare(result)]
  /\ UNCHANGED <<lambda_no, prims, translations, uid, lowered, targets>>

\* The compiled program runs a call node: the backend allocates the output
\* buffers of the node's shapes and calls the node's target; the trampoline
\* makes carray views of the captured shapes over the pointers it is given
\* and calls the captured kernel once on (args_out, args_in).
CompiledCall(node, g) ==
  /\ UNCHANGED nonOpVars
  /\ node \in lowered
  /\ LET call == xla_cpu_custom_call_target(node)
         capsule == DictGet(targets["cpu"], node.target)
         args_out == [o \in DOMAIN call.out |-> backend_buffer(call.out[o], g)]
         args_in == [a \in DOMAIN call.ins |-> Array(call.ins[a])]
         result == func_to_call(capsule.func, args_out, args_in)
     IN lastRun' = [path |-> "compiled", prim |-> node.prim, ins |-> node.ins, raised |-> FALSE,
                    descs |-> call.out, kernel |-> call.kernel,
                    calls |-> 1, outputs |-> result, bare |-> ReturnsBare(result)]
  /\ UNCHANGED <<lambda_no, prims, translations, uid, lowered, targets>>

\* The operands of the calls that are run: arrays of two elements.
RunInputs == {<<Desc(2)>>}

\* The output specifications of the operators that are run: one output of the
\* operand's shape, or two outputs.
RunOutSpecs == {[kind |-> "callable", val |-> "ins"],
                [kind |-> "seq", val |-> <<Desc(1), Desc(2)>>]}

\* The call nodes a lowering can return.
Nodes == {[prim |-> prim, ins |-> ins, target |-> TargetName(n)] :
            prim \in 1..MaxOps, ins \in RunInputs, n \in 1..MaxLower}

\* Operators are registered and called outside a trace.
EagerNext ==
  \/ \E func \in Kernels, out_shapes \in RunOutSpecs : register_cpu_op(func, out_shapes)
  \/ \E prim \in 1..MaxOps, ins \in RunInputs : EagerCall(prim, ins)

EagerSpec == OpSpecInit /\ [][EagerNext]_vars

\* Operators of two outputs are registered, called eagerly, lowered and run
\* compiled.
RunNext ==
  \/ \E func \in Kernels : register_cpu_op(func, [kind |-> "seq", val |-> <<Desc(1), Desc(2)>>])
  \/ \E prim \in 1..MaxOps, ins \in RunInputs : Lower(prim, ins)
  \/ \E prim \in 1..MaxOps, ins \in RunInputs : EagerCall(prim, ins)
  \/ \E node \in Nodes, g \in Garbage : CompiledCall(node, g)

RunSpec == OpSpecInit /\ [][RunNext]_vars

\* ------------------------------------------------ event-driven operators
\* brainpy/math/operators.py. Its versions of brainpylib include ones whose
\* last component has two digits.
EventVersions == {<<0, 0, 2>>, <<0, 0, 3>>, <<0, 0, 10>>, <<0, 1, 9>>, <<0, 1, 10>>}

\* _BRAINPYLIB_MINIMAL_VERSION = '0.0.3'
BRAINPYLIB_MINIMAL_VERSION == VersionStr(<<0, 0, 3>>)

\* The module is imported (lines 12-15): `import brainpylib` binds the global
\* to the module of this process, loading the installed library if the process
\* has none yet; when there is nothing to load the global is set to None.
ImportOperators ==
  /\ brainpylib = Unbound
  /\ sysModules' = IF sysModules # None THEN sysModules ELSE installed
  /\ brainpylib' = IF sysModules # None THEN sysModules
                   ELSE IF installed # NotInstalled THEN installed ELSE None
  /\ UNCHANGED <<installed, brainpylib_ops, pc, plat, idx, regCount, versionPassed,
                 nReturned, lastResult, snap, callRegs, callLoaded>>
  /\ UNCHANGED <<targets, opVars, mathVars, lastEvent, taichiVars>>

\* brainpylib.__version__ < _BRAINPYLIB_MINIMAL_VERSION
EventVersionNeverOld(v) == FALSE
EventVersionTooOld(v) == StrLess(VersionStr(v), BRAINPYLIB_MINIMAL_VERSION)

\* _check_brainpylib(ops_name): raises PackageMissingError when the global is
\* None or its version is below the minimum; the global is only read.
check_brainpylib(lib) ==
  IF lib # None
    THEN IF EventVersionTooOld(lib) THEN "PackageMissingError" ELSE "none"
    ELSE "PackageMissingError"

\* pre2post_event_sum / pre2post_event_prod: _check_brainpylib runs first;
\* when it returns, the arguments are converted (as_device_array) and the
\* extension kernel brainpylib.event_sum / event_prod is called once.
pre2post_event(op) ==
  /\ brainpylib # Unbound
  /\ LET raised == check_brainpylib(brainpylib)
     IN lastEvent' = [op |-> op, seen |-> brainpylib, disk |-> installed, raised |-> raised,
                      converted |-> (raised = "none"),
                      kernel_calls |-> IF raised = "none" THEN 1 ELSE 0,
                      absentFailed |-> (lastEvent.absentFailed \/ brainpylib = None)]
  /\ UNCHANGED <<loaderVars, targets, opVars, mathVars, brainpylib, taichiVars>>

\* The two operators: pre2post_event_sum and pre2post_event_prod.
EventOps == {"sum", "prod"}

EventNext ==
  \/ \E v \in {NotInstalled} \cup EventVersions : Install(v)
  \/ ImportOperators
  \/ \E op \in EventOps : pre2post_event(op)

\* The process starts without brainpylib on disk; the library is installed,
\* replaced or removed at any time.
EventSpec == OpSpecInit /\ [][EventNext]_vars

\* --------------------------------------------------- synaptic operators
\* brainpy/math/operators.py, syn2post_*. Values are floats; the model takes
\* small whole numbers, and +infinity / -infinity are numbers beyond them.
MathVals == {1, 2, 3}
inf == 1000

SegOps == {"sum", "prod", "max", "min"}

\* The value jax.ops.segment_<op> fills the output with before scattering.
Identity(op) ==
  IF op = "sum" THEN 0
  ELSE IF op = "prod" THEN 1
  ELSE IF op = "max" THEN 0 - inf
  ELSE inf

\* scatter-add / -mul / -max / -min of one value into one entry.
Combine(op, a, b) ==
  IF op = "sum" THEN a + b
  ELSE IF op = "prod" THEN a * b
  ELSE IF op = "max" THEN (IF a >= b THEN a ELSE b)
  ELSE (IF a <= b THEN a ELSE b)

\* jax.ops.segment_<op>(data, segment_ids, num_segments) after the first k
\* positions have been scattered; group g is entry g + 1.
RECURSIVE SegFold(_, _, _, _, _)
SegFold(op, data, segment_ids, num_segments, k) ==
  IF k = 0 THEN [g \in 1..num_segments |-> Identity(op)]
  ELSE LET out == SegFold(op, data, segment_ids, num_segments, k - 1)
       IN [out EXCEPT ![segment_ids[k] + 1] = Combine(op, @, data[k])]

IsSorted(ids) == \A i \in 1..(Len(ids) - 1) : ids[i] <= ids[i + 1]

\* _jit_seg_<op>(syn_values, post_ids, post_num, indices_are_sorted): the
\* results the backend can give. With indices_are_sorted the backend takes
\* post_ids as ascending; when they are not, what it returns is not specified
\* (Undefined stands for every such result).
Undefined == [defined |-> FALSE, val |-> <<>>]
jit_seg(op, syn_values, post_ids, post_num, indices_are_sorted) ==
  LET exact == [defined |-> TRUE,
                val |-> SegFold(op, syn_values, post_ids, post_num, Len(post_ids))]
  IN IF indices_are_sorted /\ ~IsSorted(post_ids) THEN {exact, Undefined} ELSE {exact}

\* The arguments of a call: post_num, and syn_values and post_ids of one
\* length with post_ids in 0..post_num-1.
MathArgs == UNION {{[values |-> v, ids |-> i, num |-> n] :
                      v \in [1..len -> MathVals], i \in [1..len -> 0..(n - 1)]} :
                    len \in 0..MaxSyn, n \in 0..MaxPost}

\* syn2post_sum / syn2post_prod / syn2post_max / syn2post_min: the call
\* returns what _jit_seg_<op> returns. The operators keep no state, so each
\* call is taken from the initial state.
syn2post(op, a, indices_are_sorted) ==
  /\ mathCall = NoMath
  /\ \E r \in jit_seg(op, a.values, a.ids, a.num, indices_are_sorted) :
       mathCall' = [op |-> op, values |-> a.values, ids |-> a.ids, num |-> a.num,
                    indices_are_sorted |-> indices_are_sorted,
                    defined |-> r.defined, result |-> r.val]
  /\ UNCHANGED <<loaderVars, targets, opVars, eventVars, taichiVars>>

RECURSIVE GCD(_, _)
GCD(a, b) == IF b = 0 THEN a ELSE GCD(b, a % b)

\* nominator / denominator of one entry: the quotient as a fraction in lowest
\* terms <<n, d>>; 0 / 0 is nan, written <<0, 0>>.
true_divide(a, b) == IF b = 0 THEN <<0, 0>> ELSE <<a \div GCD(a, b), b \div GCD(a, b)>>

\* jnp.nan_to_num: nan becomes 0.
nan_to_num(x) == IF x = <<0, 0>> THEN <<0, 1>> ELSE x

ones_like(v) == [i \in DOMAIN v |-> 1]

\* syn2post_mean: segment sum of the values over segment sum of ones, nan
\* replaced by 0.
syn2post_mean(a, indices_are_sorted) ==
  /\ mathCall = NoMath
  /\ \E nominator \in jit_seg("sum", a.values, a.ids, a.num, indices_are_sorted),
        denominator \in jit_seg("sum", ones_like(a.values), a.ids, a.num, indices_are_sorted) :
       mathCall' = [op |-> "mean", values |-> a.values, ids |-> a.ids, num |-> a.num,
                    indices_are_sorted |-> indices_are_sorted,
                    defined |-> (nominator.defined /\ denominator.defined),
                    result |-> IF nominator.defined /\ denominator.defined
                                 THEN [g \in 1..a.num |->
                                         nan_to_num(true_divide(nominator.val[g], denominator.val[g]))]
                                 ELSE <<>>]
  /\ UNCHANGED <<loaderVars, targets, opVars, eventVars, taichiVars>>

MathNext ==
  \/ \E op \in SegOps, a \in MathArgs, indices_are_sorted \in BOOLEAN :
       syn2post(op, a, indices_are_sorted)
  \/ \E a \in MathArgs, indices_are_sorted \in BOOLEAN : syn2post_mean(a, indices_are_sorted)

MathSpec == OpSpecInit /\ [][MathNext]_vars

\* ----------------------------------------------- pre-synaptic operators
\* brainpy/math/operators.py, pre2post_* and pre2syn.
PreVals == {10, 20}

\* The arguments of a call. pre_values is a scalar (kept as <<s>>) or an array;
\* pre_ids is None (has_pre_ids false) or an array of the length of post_ids
\* that indexes pre_values; post_ids is in 0..post_num-1. The pre2post
\* operators are called with up to MaxPre synapses, pre2syn with up to MaxSyn.
PreValues == {[scalar |-> TRUE, pre_values |-> <<x>>] : x \in PreVals}
               \cup UNION {{[scalar |-> FALSE, pre_values |-> v] : v \in [1..n -> PreVals]} :
                            n \in 1..MaxPre}

PreArgs == UNION {{[scalar |-> pv.scalar, pre_values |-> pv.pre_values,
                    has_pre_ids |-> TRUE, pre_ids |-> pre_ids, ids |-> post_ids, num |-> n] :
                     pre_ids \in [1..len -> 0..(Len(pv.pre_values) - 1)],
                     post_ids \in [1..len -> 0..(n - 1)]}
                   \cup {[scalar |-> pv.scalar, pre_values |-> pv.pre_values,
                          has_pre_ids |-> FALSE, pre_ids |-> <<>>, ids |-> post_ids, num |-> n] :
                           post_ids \in [1..len -> 0..(n - 1)]} :
                  pv \in PreValues, len \in 0..MaxPre, n \in 0..MaxPost}

Pre2SynArgs == UNION {{[scalar |-> pv.scalar, pre_values |-> pv.pre_values,
                        has_pre_ids |-> TRUE, pre_ids |-> pre_ids, ids |-> <<>>, num |-> 0] :
                         pre_ids \in [1..len -> 0..(Len(pv.pre_values) - 1)]} :
                      pv \in PreValues, len \in 0..MaxSyn}

\* jnp.zeros(post_num)
jnp_zeros(n) == [g \in 1..n |-> 0]

\* out.at[ids].add / multiply / min / max (vals) after the first k positions:
\* every position combines its value into the entry of its id.
RECURSIVE at_op(_, _, _, _, _)
at_op(op, out, ids, vals, k) ==
  IF k = 0 THEN out
  ELSE LET prev == at_op(op, out, ids, vals, k - 1)
       IN [prev EXCEPT ![ids[k] + 1] = Combine(op, @, vals[k])]

\* _raise_pre_ids_is_none(pre_ids): MathError when pre_ids is None.
raise_never(has_pre_ids) == FALSE
raise_pre_ids_is_none(has_pre_ids) == ~has_pre_ids

\* pre_values[pre_ids], and _pre2syn = vmap(lambda pre_id, pre_vs: pre_vs[pre_id]).
gather_first(pre_ids, pre_vs) == [i \in DOMAIN pre_ids |-> pre_vs[1]]
gather(pre_ids, pre_vs) == [i \in DOMAIN pre_ids |-> pre_vs[pre_ids[i] + 1]]

\* A scalar combined into every position of ids (broadcasting).
broadcast(x, ids) == [i \in DOMAIN ids |-> x]

\* The names of the operators.
PreName(op) ==
  IF op = "sum" THEN "pre2post_sum"
  ELSE IF op = "prod" THEN "pre2post_prod"
  ELSE IF op = "min" THEN "pre2post_min"
  ELSE IF op = "max" THEN "pre2post_max"
  ELSE IF op = "mean" THEN "pre2post_mean"
  ELSE "pre2syn"

\* The record of a call of a pre-synaptic operator.
PreCall(op, a, raised, defined, result) ==
  [op |-> PreName(op), reduce |-> op, scalar |-> a.scalar, pre_values |-> a.pre_values, has_pre_ids |-> a.has_pre_ids,
   pre_ids |-> a.pre_ids, ids |-> a.ids, num |-> a.num,
   raised |-> raised, defined |-> defined, result |-> result]

\* pre2post_sum / pre2post_prod / pre2post_min / pre2post_max: out is
\* jnp.zeros(post_num); an array pre_values needs pre_ids and is gathered by
\* them; the values are combined into out at post_ids.
pre2post(op) ==
  /\ mathCall = NoMath
  /\ \E a \in PreArgs :
       mathCall' =
         IF ~a.scalar /\ raise_pre_ids_is_none(a.has_pre_ids)
           THEN PreCall(op, a, "MathError", TRUE, <<>>)
           ELSE LET vals == IF a.scalar THEN broadcast(a.pre_values[1], a.ids)
                            ELSE gather(a.pre_ids, a.pre_values)
                IN PreCall(op, a, "none", TRUE,
                           at_op(op, jnp_zeros(a.num), a.ids, vals, Len(a.ids)))
  /\ UNCHANGED <<loaderVars, targets, opVars, eventVars, taichiVars>>

\* pre2syn(pre_values, pre_ids): a scalar times ones(len(pre_ids)), or the
\* gather of an array by pre_ids.
pre2syn_value(a) ==
  IF a.scalar THEN [i \in DOMAIN a.pre_ids |-> 1 * a.pre_values[1]]
  ELSE gather(a.pre_ids, a.pre_values)

pre2syn ==
  /\ mathCall = NoMath
  /\ \E a \in Pre2SynArgs : mathCall' = PreCall("pre2syn", a, "none", TRUE, pre2syn_value(a))
  /\ UNCHANGED <<loaderVars, targets, opVars, eventVars, taichiVars>>

\* pre2post_mean: a scalar is set at the ids that occur in post_ids
\* (out.at[jnp.unique(post_ids)].set); an array needs pre_ids and goes through
\* pre2syn and syn2post_mean (with its default indices_are_sorted=True).
pre2post_mean ==
  /\ mathCall = NoMath
  /\ \E a \in PreArgs :
       IF a.scalar
         THEN mathCall' = PreCall("mean", a, "none", TRUE,
                                  [g \in 1..a.num |->
                                     IF \E i \in DOMAIN a.ids : a.ids[i] = g - 1
                                       THEN <<a.pre_values[1], 1>> ELSE <<0, 1>>])
         ELSE IF raise_pre_ids_is_none(a.has_pre_ids)
           THEN mathCall' = PreCall("mean", a, "MathError", TRUE, <<>>)
           ELSE \E nominator \in jit_seg("sum", pre2syn_value(a), a.ids, a.num, TRUE),
                   denominator \in jit_seg("sum", ones_like(pre2syn_value(a)), a.ids, a.num, TRUE) :
                  mathCall' = PreCall("mean", a, "none", nominator.defined /\ denominator.defined,
                                      IF nominator.defined /\ denominator.defined
                                        THEN [g \in 1..a.num |->
                                                nan_to_num(true_divide(nominator.val[g], denominator.val[g]))]
                                        ELSE <<>>)
  /\ UNCHANGED <<loaderVars, targets, opVars, eventVars, taichiVars>>

\* The loops of the docstrings of syn2post_sum / _prod / _max / _min (lines
\* 412-414, 448-450, 485-487, 522-524): post_val = np.zeros(post_num), then for
\* every synapse syn_i the value syn_values[syn_i] is combined into
\* post_val[post_ids[syn_i]] with +=, *=, np.maximum, np.minimum.
doc_syn2post(op, syn_values, post_ids, post_num) ==
  at_op(op, [g \in 1..post_num |-> 0], post_ids, syn_values, Len(post_ids))

PreNext ==
  \/ \E op \in SegOps : pre2post(op)
  \/ pre2post_mean
  \/ pre2syn

PreSpec == OpSpecInit /\ [][PreNext]_vars

\* ------------------------------------------------- event-driven summation
\* brainpy/math/operators.py, pre2post_event_sum. The connection is given in
\* compressed form: the synapses idnptr[i] .. idnptr[i+1]-1 belong to the pre
\* unit i, and indices[j] is the post unit of the synapse j. Python indices
\* start at 0, the positions of a sequence at 1.
EventVals == {1, 2}

\* The offsets of pre_num pre units over nnz synapses.
Offsets(pre_num, nnz) ==
  {o \in [1..(pre_num + 1) -> 0..nnz] :
     /\ o[1] = 0
     /\ o[pre_num + 1] = nnz
     /\ \A k \in 1..pre_num : o[k] <= o[k + 1]}

\* The arguments of a call: events, (indices, idnptr), post_num, values, the
\* values being one scalar or one value per synapse.
EventArgs(pn, nnz, n) ==
  {[events |-> e, indices |-> ind, idnptr |-> o, num |-> n, scalar |-> TRUE, values |-> <<x>>] :
     e \in [1..pn -> BOOLEAN], ind \in [1..nnz -> 0..(n - 1)], o \in Offsets(pn, nnz), x \in EventVals}
  \cup {[events |-> e, indices |-> ind, idnptr |-> o, num |-> n, scalar |-> FALSE, values |-> v] :
     e \in [1..pn -> BOOLEAN], ind \in [1..nnz -> 0..(n - 1)], o \in Offsets(pn, nnz),
     v \in [1..nnz -> EventVals]}

\* The pre unit that owns the synapse j.
Owner(a, j) == CHOOSE i \in 0..(Len(a.events) - 1) : a.idnptr[i + 1] <= j /\ j < a.idnptr[i + 2]

\* values, or values[j]
EventValue(a, j) == IF a.scalar THEN a.values[1] ELSE a.values[j + 1]

\* brainpylib.event_sum: the kernel of the extension. Over the synapses of the
\* pre units whose event is true, the value of the synapse j is added into
\* out[indices[j]]; the first k synapses are done.
RECURSIVE event_sum(_, _)
event_sum(a, k) ==
  IF k = 0 THEN [g \in 1..a.num |-> 0]
  ELSE LET prev == event_sum(a, k - 1)
           j == k - 1
           i == Owner(a, j)
       IN IF a.events[i + 1]
            THEN [prev EXCEPT ![a.indices[j + 1] + 1] = @ + EventValue(a, j)]
            ELSE prev

\* The loop of the docstring: for i in range(pre_num): if events[i]:
\* for j in range(idnptr[i], idnptr[i+1]): post_val[post_ids[i]] += values[j].
\* The post unit is read at the position of the pre unit.
RECURSIVE doc_event_loop(_, _)
doc_event_loop(a, k) ==
  IF k = 0 THEN [g \in 1..a.num |-> 0]
  ELSE LET prev == doc_event_loop(a, k - 1)
           j == k - 1
           i == Owner(a, j)
       IN IF a.events[i + 1]
            THEN [prev EXCEPT ![a.indices[i + 1] + 1] = @ + EventValue(a, j)]
            ELSE prev

\* post_ids[i] of the loop is outside post_ids for some synapse it visits.
DocIndexError(a) ==
  \E j \in 0..(Len(a.indices) - 1) : a.events[Owner(a, j) + 1] /\ Owner(a, j) >= Len(a.indices)

\* The result of the loop of the docstring, or its IndexError.
doc_event_sum(a) ==
  IF DocIndexError(a) THEN [raised |-> "IndexError", val |-> <<>>]
  ELSE [raised |-> "none", val |-> doc_event_loop(a, Len(a.indices))]

\* pre2post_event_sum (lines 115-121): _check_brainpylib, then the kernel.
pre2post_event_sum ==
  /\ brainpylib # Unbound
  /\ mathCall = NoMath
  /\ \E pn \in 1..MaxPre, nnz \in 0..MaxSyn, n \in 1..MaxPost : \E a \in EventArgs(pn, nnz, n) :
       LET raised == check_brainpylib(brainpylib)
       IN mathCall' = [op |-> "pre2post_event_sum", events |-> a.events, indices |-> a.indices,
                       idnptr |-> a.idnptr, num |-> a.num, scalar |-> a.scalar, values |-> a.values,
                       raised |-> raised,
                       result |-> IF raised = "none" THEN event_sum(a, Len(a.indices)) ELSE <<>>]
  /\ UNCHANGED <<loaderVars, targets, opVars, eventVars, taichiVars>>

EventSumNext ==
  \/ \E v \in {NotInstalled, <<0, 1, 10>>} : Install(v)
  \/ ImportOperators
  \/ pre2post_event_sum

EventSumSpec == OpSpecInit /\ [][EventSumNext]_vars

\* ------------------------------------------------------------ import_taichi
\* brainpy/_src/dependency_check.py, import_taichi. taichi.__version__ is a
\* tuple of three integers, compared with the tuple _minimal_taichi_version.
TaichiVersions == {<<0, 9, 0>>, <<1, 6, 0>>, <<1, 6, 10>>, <<1, 7, 0>>, <<1, 7, 1>>,
                   <<1, 10, 0>>, <<2, 0, 0>>}

\* _minimal_taichi_version = (1, 7, 0)
minimal_taichi_version == <<1, 7, 0>>

\* a < b on tuples of the same length: the first component that differs decides.
TupleLess(a, b) ==
  \E i \in DOMAIN a : a[i] < b[i] /\ \A j \in 1..(i - 1) : a[j] = b[j]

\* taichi is installed, replaced or removed on disk.
InstallTaichi(v) ==
  /\ taichi_installed # v
  /\ taichi_installed' = v
  /\ UNCHANGED <<taichi, lastTaichi>>
  /\ UNCHANGED <<loaderVars, targets, opVars, eventVars, mathVars>>

\* The version test of lines 30-35 is at the level of the function body, after
\* the `if taichi is None:` block: it runs whether the module was cached or not.
version_check_on_load_only(cached) == ~cached
version_check_runs(cached) == TRUE

\* import_taichi(): when the global is None the module is imported and bound
\* (ModuleNotFoundError when there is none); then the version of the module
\* of the global is tested, and the module is returned.
import_taichi ==
  /\ LET cached == taichi # None
     IN IF ~cached /\ taichi_installed = NotInstalled
          THEN /\ lastTaichi' = [op |-> "import_taichi", cached |-> FALSE, version |-> None,
                                 result |-> "ModuleNotFoundError"]
               /\ UNCHANGED taichi
          ELSE /\ taichi' = IF cached THEN taichi ELSE taichi_installed
               /\ lastTaichi' = [op |-> "import_taichi", cached |-> cached, version |-> taichi',
                                 result |-> IF version_check_runs(cached)
                                               /\ TupleLess(taichi', minimal_taichi_version)
                                              THEN "RuntimeError" ELSE "module"]
  /\ UNCHANGED taichi_installed
  /\ UNCHANGED <<loaderVars, targets, opVars, eventVars, mathVars>>

TaichiNext ==
  \/ \E v \in {NotInstalled} \cup TaichiVersions : InstallTaichi(v)
  \/ import_taichi

TaichiSpec == OpSpecInit /\ [][TaichiNext]_vars

\* ---------------------------------------------------------------- claims
Idle == \A t \in Threads : pc[t] = "idle"

\* The failures of the library itself: it is absent, or below the minimum version.
LibraryFailures == {"ImportError", "SystemError"}

\* Some thread is between the import and the end of the version check for p.
Loading(p) == \E t \in Threads : plat[t] = p /\ pc[t] \in {"reg", "version"}

\* C1: a call returns an extension handle only if the version of the loaded
\* brainpylib is not older than the minimum; while it is older, every call
\* fails. ("Older" is taken here as the loader itself computes it.)
C1_HandleOnlyIfVersionOK ==
  \A p \in Platforms : lastResult[p] = "handle" => ~VersionTooOld(sysModules)

\* C2: the cached handle of a platform is set only if the library was loaded,
\* the version check passed and every symbol of registrations() is registered
\* for that platform; outside the call that is loading it, no state shows a
\* handle for which one of these steps failed or has not run.
C2_HandleFullyPopulated ==
  \A p \in Platforms :
    (brainpylib_ops[p] # None /\ ~Loading(p)) =>
      /\ sysModules # None
      /\ versionPassed[p]
      /\ \A s \in Symbols : ExtName(s) \in Names(targets, p)

\* C3: once a call has returned a handle for a platform, every later call for
\* that platform returns the same cached handle, runs no import and makes no
\* call of register_custom_call_target, and each exported symbol has been
\* registered exactly once for the platform.
C3_CachedAfterReturn ==
  \A p \in Platforms :
    nReturned[p] >= 1 =>
      /\ brainpylib_ops[p] = <<"brainpylib", p, "ops">>
      /\ lastResult[p] = "handle"
      /\ \A s \in Symbols : regCount[p][s] = 1
      /\ \A t \in Threads :
           (pc[t] # "idle" /\ plat[t] = p) =>
             /\ pc[t] \in {"check", "ret"}
             /\ callRegs = 0
             /\ ~callLoaded

\* A second call has returned the handle of a platform.
C3_Witness == \E p \in Platforms : nReturned[p] = 2 /\ Idle

\* C4: a failed attempt is not cached: the call that follows a call that
\* raised (library absent or below the minimum version) runs the import, the registration of every symbol and the version
\* check again before it returns.
C4_FailedAttemptRetried ==
  \A t \in Threads :
    (pc[t] = "ret" /\ lastResult[plat[t]] \in LibraryFailures) =>
      /\ callLoaded
      /\ callRegs = NumSymbols
      /\ versionPassed[plat[t]]

\* C5: a loader call that fails (library absent or below the minimum version) leaves the cached handle and the call-target
\* namespace of its platform as they were when the call began.
C5_FailureLeavesNoTrace ==
  (Idle /\ lastResult[snap.plat] \in LibraryFailures) =>
    /\ brainpylib_ops[snap.plat] = snap.handle
    /\ Names(targets, snap.plat) = snap.names

\* C6: with threads calling the loader concurrently, each exported symbol is
\* registered as a call target at most once per platform.
C6_NoDoubleRegistration ==
  \A p \in Platforms : \A s \in Symbols : regCount[p][s] <= 1

Anonymous(func) == ~func.dispatcher /\ func.name = "<lambda>"

\* C7: operator ids are unique: two primitives made by register_cpu_op from
\* distinct kernels (two anonymous kernels, or two functions of the same
\* __name__) never carry the same name.
C7_UniqueIds ==
  \A a, b \in 1..Len(prims) :
    prims[a].func # prims[b].func => prims[a].name # prims[b].name

\* C8: after two distinct anonymous kernels A and then B are registered, the
\* operator of each keeps its own kernel and abstract evaluator: the eager
\* rule of the operator runs its kernel, the cpu translation table gives its
\* own rule, and every call node lowered for it names a registered target
\* whose trampoline calls its kernel on the views its abstract evaluator gives.
C8_AnonymousKernelsIndependent ==
  \A a, b \in 1..Len(prims) :
    (a < b /\ Anonymous(prims[a].func) /\ Anonymous(prims[b].func)
           /\ prims[a].func # prims[b].func) =>
      \A p \in {a, b} :
        LET mine(ins) == abs_eval_rule(prims[p].out_shapes, ins)
        IN /\ \A ins \in Inputs :
                eval_rule(p, ins) = [kernel |-> prims[p].func.id, ins |-> ins, out |-> mine(ins)]
           /\ HasTranslation(p)
           /\ translation_rule(p) = [func |-> prims[p].func, out_shapes |-> prims[p].out_shapes]
           /\ \A node \in lowered :
                node.prim = p =>
                  /\ DictHas(targets["cpu"], node.target)
                  /\ xla_cpu_custom_call_target(node) =
                       [kernel |-> prims[p].func.id, ins |-> node.ins, out |-> mine(node.ins)]

\* Two distinct anonymous kernels with different output specifications are
\* registered, and both operators have been lowered.
C8_Witness ==
  \E a, b \in 1..Len(prims) :
    /\ a < b /\ Anonymous(prims[a].func) /\ Anonymous(prims[b].func)
    /\ prims[a].func # prims[b].func
    /\ prims[a].out_shapes # prims[b].out_shapes
    /\ \E na, nb \in lowered : na.prim = a /\ nb.prim = b

\* C9: lowering an operator again with an identical input signature is a
\* cache hit: it returns the target registered the first time and adds
\* nothing to the cpu call-target namespace.
C9_LoweringIdempotent ==
  /\ \A n1, n2 \in lowered :
       (n1.prim = n2.prim /\ n1.ins = n2.ins) => n1.target = n2.target
  /\ Cardinality(targets["cpu"]) = Cardinality({<<n.prim, n.ins>> : n \in lowered})

\* The accepted forms of out_shapes: a callable, a descriptor, a tuple / list
\* of descriptors.
ValidOutSpec(o) ==
  \/ o.kind = "callable"
  \/ o.kind = "desc" /\ o.val \in Descs
  \/ o.kind = "seq" /\ \A i \in DOMAIN o.val : o.val[i] \in Descs

\* C11: register_cpu_op called with an output specification that is neither
\* callable, a descriptor nor a tuple / list of descriptors fails in the
\* registration call and inserts no operator and no translation rule: every
\* operator and every rule in the registries has an accepted specification.
C11_InvalidSpecRejected ==
  /\ \A i \in 1..Len(prims) : ValidOutSpec(prims[i].out_shapes)
  /\ \A e \in translations : ValidOutSpec(e[2].out_shapes)

\* C12: the eager path and the compiled path run the same kernel on views of
\* the shapes the abstract evaluator gives and deliver the same output values:
\* what a compiled call of an operator delivers is what an eager call of the
\* operator on the same operands delivers.
C12_EagerCompiledAgree ==
  lastRun.path = "compiled" =>
    LET output_shapes == abs_eval_rule(prims[lastRun.prim].out_shapes, lastRun.ins)
        outputs == [o \in DOMAIN output_shapes |-> zeros(output_shapes[o])]
        inputs == [a \in DOMAIN lastRun.ins |-> Array(lastRun.ins[a])]
    IN /\ lastRun.kernel = prims[lastRun.prim].func.id
       /\ lastRun.descs = output_shapes
       /\ lastRun.outputs = func_to_call(prims[lastRun.prim].func, outputs, inputs)

\* C13: outside a trace, a call of a registered operator evaluates the
\* abstract rule on the operands, allocates one zero-filled buffer per
\* descriptor (same order, same shape), calls the kernel exactly once on
\* (outputs, inputs) and returns the outputs, the bare value when there is
\* exactly one and the tuple otherwise; every position the kernel does not
\* write is 0.
C13_EagerCall ==
  lastRun.path = "eager" =>
    LET func == prims[lastRun.prim].func
        descs == abs_eval_rule(prims[lastRun.prim].out_shapes, lastRun.ins)
        inputs == [a \in DOMAIN lastRun.ins |-> Array(lastRun.ins[a])]
        fromZero == func_to_call(func, [o \in DOMAIN descs |-> zeros(descs[o])], inputs)
    IN /\ ~lastRun.raised
       /\ lastRun.descs = descs
       /\ lastRun.calls = 1
       /\ lastRun.kernel = func.id
       /\ Len(lastRun.outputs) = Len(descs)
       /\ \A o \in DOMAIN descs :
            /\ Len(lastRun.outputs[o]) = descs[o].shape[1]
            /\ \A i \in DOMAIN lastRun.outputs[o] :
                 IF i \in Written(func.id, lastRun.outputs[o])
                   THEN lastRun.outputs[o][i] = fromZero[o][i]
                   ELSE lastRun.outputs[o][i] = 0
       /\ lastRun.bare <=> (Len(descs) = 1)

\* An eager call of a two-output operator whose kernel writes only the first
\* position of each output has returned.
C13_Witness ==
  /\ lastRun.path = "eager"
  /\ lastRun.kernel = 2
  /\ ~lastRun.bare
  /\ lastRun.outputs = <<<<5>>, <<5, 0>>>>

\* C14: register_cpu_op and eager calls register no call target and compile
\* no trampoline; the call-target namespace changes only in a lowering (which
\* compiles a trampoline) or in the extension loader.
C14_NamespaceFrame ==
  [][/\ (prims' # prims \/ lastRun'.path = "eager") => (targets' = targets /\ uid' = uid)
     /\ targets' # targets => (uid' # uid \/ regCount' # regCount)]_vars

\* An operator was registered and called eagerly after a lowering, and the
\* namespace holds exactly the compiled trampolines.
C14_Witness ==
  /\ lastRun.path = "eager"
  /\ uid >= 1
  /\ Names(targets, "cpu") = {TargetName(n) : n \in 1..uid}
  /\ targets["gpu"] = {}

\* C15: the abstract evaluator returns a sequence of descriptors for every
\* accepted form: a single descriptor is wrapped into a one-element sequence,
\* a tuple / list of descriptors is returned as is, the result of a callable
\* is returned as a sequence (a bare descriptor wrapped into one element);
\* any other type, or a tuple / list holding a non-descriptor, raises.
C15_AbstractEvalForms ==
  lastRun.path = "abstract" =>
    LET out_shapes == prims[lastRun.prim].out_shapes
        ins == lastRun.ins
    IN /\ ~lastRun.raised => \A i \in DOMAIN lastRun.descs : lastRun.descs[i] \in Descs
       /\ out_shapes.kind = "desc" => (~lastRun.raised /\ lastRun.descs = <<out_shapes.val>>)
       /\ out_shapes.kind = "seq" =>
            IF \A i \in DOMAIN out_shapes.val : out_shapes.val[i] \in Descs
              THEN ~lastRun.raised /\ lastRun.descs = out_shapes.val
              ELSE lastRun.raised
       /\ out_shapes.kind = "callable" =>
            /\ ~lastRun.raised
            /\ out_shapes.val = "ins" => lastRun.descs = ins
            /\ out_shapes.val = "first" => lastRun.descs = <<ins[1]>>
       /\ out_shapes.kind = "other" => lastRun.raised

\* The abstract rule of an operator registered with a callable that returns a
\* bare descriptor has been evaluated, and an operator registered with a tuple
\* holding a non-descriptor exists.
C15_Witness ==
  /\ lastRun.path = "abstract"
  /\ prims[lastRun.prim].out_shapes = [kind |-> "callable", val |-> "first"]
  /\ lastRun.descs = <<Desc(2)>>
  /\ \E i \in 1..Len(prims) : prims[i].out_shapes = [kind |-> "seq", val |-> <<Desc(1), NotADesc>>]

\* Numeric comparison of versions, component by component.
NumOlder(a, b) ==
  \/ a[1] < b[1]
  \/ a[1] = b[1] /\ a[2] < b[2]
  \/ a[1] = b[1] /\ a[2] = b[2] /\ a[3] < b[3]

\* C16: a call of pre2post_event_sum / pre2post_event_prod made while the
\* extension is not available to the module (brainpylib absent, or numerically
\* below 0.0.3) raises PackageMissingError, and has converted no argument and
\* called no extension kernel.
C16_UnavailableRaises ==
  (lastEvent.op # "none" /\ (lastEvent.seen = None \/ NumOlder(lastEvent.seen, <<0, 0, 3>>))) =>
    /\ lastEvent.raised = "PackageMissingError"
    /\ ~lastEvent.converted
    /\ lastEvent.kernel_calls = 0

\* A call of pre2post_event_prod was made with brainpylib 0.0.2 loaded.
C16_Witness ==
  /\ lastEvent.op = "prod"
  /\ lastEvent.seen = <<0, 0, 2>>
  /\ lastEvent.raised = "PackageMissingError"

\* C17: the event-driven operators re-attempt the load on every call: a call
\* made after a call failed for want of brainpylib, at a time when a
\* brainpylib that passes the version test is installed, succeeds.
C17_RetryAfterInstall ==
  (lastEvent.op # "none" /\ lastEvent.absentFailed
     /\ lastEvent.disk # NotInstalled /\ ~EventVersionTooOld(lastEvent.disk)) =>
    lastEvent.raised = "none"

\* C18: the version gates compare versions numerically, component by
\* component: the event-operator check rejects the loaded version exactly
\* when it is numerically older than 0.0.3.
C18_NumericVersionGate ==
  (lastEvent.op # "none" /\ lastEvent.seen # None) =>
    (lastEvent.raised = "PackageMissingError" <=> NumOlder(lastEvent.seen, <<0, 0, 3>>))

\* The positions of the latest call that map to group g.
Positions(g) == {i \in 1..Len(mathCall.ids) : mathCall.ids[i] = g}

RECURSIVE SumOver(_, _)
SumOver(S, v) ==
  IF S = {} THEN 0
  ELSE LET i == CHOOSE i \in S : TRUE IN v[i] + SumOver(S \ {i}, v)

RECURSIVE ProdOver(_, _)
ProdOver(S, v) ==
  IF S = {} THEN 1
  ELSE LET i == CHOOSE i \in S : TRUE IN v[i] * ProdOver(S \ {i}, v)

MinOver(S, v) == IF S = {} THEN inf ELSE CHOOSE m \in {v[i] : i \in S} : \A j \in S : m <= v[j]
MaxOver(S, v) == IF S = {} THEN 0 - inf ELSE CHOOSE m \in {v[i] : i \in S} : \A j \in S : m >= v[j]

\* The op-combination of the values at the positions S; the identity of op
\* when S is empty.
OpOver(op, S, v) ==
  IF op = "sum" THEN SumOver(S, v)
  ELSE IF op = "prod" THEN ProdOver(S, v)
  ELSE IF op = "min" THEN MinOver(S, v)
  ELSE MaxOver(S, v)

\* C19: for op in sum, prod, min, max, every post_num >= 0 and all values and
\* ids of one length with ids in 0..post_num-1, syn2post_<op> returns a vector
\* of length post_num whose entry g is the op-combination of the values of
\* the positions of g, the identity of op where g has no position.
C19_SegmentReduce ==
  mathCall.op \in SegOps =>
    /\ mathCall.defined
    /\ Len(mathCall.result) = mathCall.num
    /\ \A g \in 0..(mathCall.num - 1) :
         mathCall.result[g + 1] = OpOver(mathCall.op, Positions(g), mathCall.values)

\* C20: syn2post_mean returns, for every group with a position, the sum of
\* its values divided by the number of its positions, and 0 for every group
\* without one; values [1,2,3], ids [0,0,1], post_num 2 give [1.5, 3.0].
C20_SegmentMean ==
  mathCall.op = "mean" =>
    /\ mathCall.defined
    /\ Len(mathCall.result) = mathCall.num
    /\ \A g \in 0..(mathCall.num - 1) :
         LET q == mathCall.result[g + 1]
         IN IF Positions(g) = {} THEN q = <<0, 1>>
            ELSE q[2] > 0 /\ q[1] * Cardinality(Positions(g)) = SumOver(Positions(g), mathCall.values) * q[2]
    /\ (mathCall.values = <<1, 2, 3>> /\ mathCall.ids = <<0, 0, 1>> /\ mathCall.num = 2) =>
         mathCall.result = <<<<3, 2>>, <<3, 1>>>>

\* The latest call is a call of pre2post_sum / _prod / _min / _max.
IsPre2Post == mathCall.op \in {PreName(op) : op \in SegOps}

\* The values of the synapses of the latest call: pre_values gathered by
\* pre_ids, or the scalar at every synapse.
SynValues ==
  IF mathCall.scalar THEN [i \in DOMAIN mathCall.ids |-> mathCall.pre_values[1]]
  ELSE [i \in DOMAIN mathCall.pre_ids |-> mathCall.pre_values[mathCall.pre_ids[i] + 1]]

\* C21: for op in sum, prod, min, max, pre2post_<op> equals syn2post_<op> of
\* pre2syn: the gather by pre_ids (or the scalar broadcast over post_ids)
\* scatter-reduced with op by post_ids. Stated for ascending post_ids, where
\* syn2post_<op> has one result.
C21_Pre2PostIsGatherScatter ==
  (IsPre2Post /\ mathCall.raised = "none" /\ IsSorted(mathCall.ids)) =>
    mathCall.result = SegFold(mathCall.reduce, SynValues, mathCall.ids, mathCall.num,
                              Len(mathCall.ids))

\* C22: pre2post_sum, _prod, _min, _max and _mean raise MathError exactly
\* when pre_values is not a scalar and pre_ids is None.
C22_MathErrorIffNoPreIds ==
  (IsPre2Post \/ mathCall.op = "pre2post_mean") =>
    (mathCall.raised = "MathError" <=> (~mathCall.scalar /\ ~mathCall.has_pre_ids))

\* pre2post_mean was called with an array and no pre_ids, and raised.
C22_Witness ==
  /\ mathCall.op = "pre2post_mean"
  /\ ~mathCall.scalar
  /\ ~mathCall.has_pre_ids
  /\ mathCall.raised = "MathError"

\* C23: pre2syn(values, index) returns a vector of the length of index whose
\* every entry is the scalar values, or whose entry i is values[index[i]];
\* values [10,20] and index [0,1,0] give [10,20,10].
C23_Pre2Syn ==
  mathCall.op = "pre2syn" =>
    /\ Len(mathCall.result) = Len(mathCall.pre_ids)
    /\ \A i \in 1..Len(mathCall.pre_ids) :
         mathCall.result[i] = IF mathCall.scalar THEN mathCall.pre_values[1]
                              ELSE mathCall.pre_values[mathCall.pre_ids[i] + 1]
    /\ (~mathCall.scalar /\ mathCall.pre_values = <<10, 20>> /\ mathCall.pre_ids = <<0, 1, 0>>) =>
         mathCall.result = <<10, 20, 10>>

\* pre2syn([10,20], [0,1,0]) has returned [10,20,10].
C23_Witness ==
  /\ mathCall.op = "pre2syn"
  /\ ~mathCall.scalar
  /\ mathCall.pre_values = <<10, 20>>
  /\ mathCall.pre_ids = <<0, 1, 0>>
  /\ mathCall.result = <<10, 20, 10>>
\* The synapses of the pre units whose event is true that end in the post unit g.
ActiveEdges(g) ==
  {j \in 0..(Len(mathCall.indices) - 1) :
     /\ mathCall.indices[j + 1] = g
     /\ \E i \in 0..(Len(mathCall.events) - 1) :
          mathCall.events[i + 1] /\ mathCall.idnptr[i + 1] <= j /\ j < mathCall.idnptr[i + 2]}

\* The sum of the values of a set of synapses.
RECURSIVE EdgeSum(_)
EdgeSum(S) ==
  IF S = {} THEN 0
  ELSE LET j == CHOOSE x \in S : TRUE
       IN (IF mathCall.scalar THEN mathCall.values[1] ELSE mathCall.values[j + 1]) + EdgeSum(S \ {j})

\* C24: with the extension available, pre2post_event_sum returns for every
\* post unit the sum of the values of the synapses that end in it and belong
\* to a pre unit whose event is true, and the loop of the docstring computes
\* the same result.
C24_EventSumIsDocLoop ==
  (mathCall.op = "pre2post_event_sum" /\ mathCall.raised = "none") =>
    /\ \A g \in 0..(mathCall.num - 1) : mathCall.result[g + 1] = EdgeSum(ActiveEdges(g))
    /\ doc_event_sum(mathCall) = [raised |-> "none", val |-> mathCall.result]

\* C25: syn2post_sum, syn2post_prod, syn2post_max and syn2post_min return the
\* result of the loop of their docstring, which starts from zeros and combines
\* the value of every synapse into the entry of its post unit. Stated for the
\* calls whose result is specified.
C25_Syn2PostIsDocLoop ==
  (mathCall.op \in SegOps /\ mathCall.defined) =>
    mathCall.result = doc_syn2post(mathCall.op, mathCall.values, mathCall.ids, mathCall.num)

\* C26: while a thread is inside a call that loads the extension of a platform,
\* a call of another thread has returned the handle of that platform only if
\* every symbol of registrations() is registered and the version check has
\* passed.
C26_NoReturnWhileLoading ==
  \A p \in Platforms :
    (Loading(p) /\ nReturned[p] >= 1) =>
      /\ versionPassed[p]
      /\ \A sym \in Symbols : ExtName(sym) \in Names(targets, p)

\* C27: every call node the translation rule has returned names a target that
\* is registered on the cpu platform, and the trampoline behind that target
\* was generated for the descriptors of the node's operands and for the output
\* descriptors the abstract evaluator of the node's operator gives for them.
C27_NodeTargetsRegistered ==
  \A node \in lowered :
    /\ node.target \in Names(targets, "cpu")
    /\ LET capsule == DictGet(targets["cpu"], node.target)
       IN /\ capsule.ins = node.ins
          /\ capsule.out = abs_eval_rule(prims[node.prim].out_shapes, node.ins)

C27_Witness ==
  \E n1, n2 \in lowered :
    /\ n1.ins # n2.ins
    /\ abs_eval_rule(prims[n1.prim].out_shapes, n1.ins) # abs_eval_rule(prims[n2.prim].out_shapes, n2.ins)
    /\ {n1.target, n2.target} \subseteq Names(targets, "cpu")

\* The platform of the loader call whose step this is.
StepPlatform(t) == IF pc[t] = "idle" THEN plat'[t] ELSE plat[t]

\* C28: a step of a call of the loader of one platform, whether the call
\* succeeds or fails, leaves the handle of the other platform and the call
\* targets of the other platform unchanged.
C28_PlatformsIndependent ==
  [][\A t \in Threads :
       (pc'[t] # pc[t] \/ idx'[t] # idx[t]) =>
         \A q \in Platforms \ {StepPlatform(t)} :
           /\ brainpylib_ops'[q] = brainpylib_ops[q]
           /\ targets'[q] = targets[q]]_vars

\* A call for cpu has returned the handle and a call for gpu has failed; the
\* cpu targets are registered and nothing is on the gpu platform.
C28_Witness ==
  /\ Idle
  /\ nReturned["cpu"] >= 1
  /\ lastResult["gpu"] \in LibraryFailures
  /\ Names(targets, "cpu") = {ExtName(sym) : sym \in Symbols}
  /\ targets["gpu"] = {}
  /\ brainpylib_ops["cpu"] # None

\* The version is (1, 7, 0) or later.
AtLeast170(v) == v[1] > 1 \/ (v[1] = 1 /\ v[2] >= 7)

\* C29: a call of import_taichi returns the module only if the version of the
\* module is at least (1, 7, 0), and with a module older than that the call
\* raises RuntimeError, whether the module was imported by this call or was
\* already cached by an earlier call.
C29_VersionCheckedEveryCall ==
  (lastTaichi.op = "import_taichi" /\ lastTaichi.version # None) =>
    /\ lastTaichi.result = "module" => AtLeast170(lastTaichi.version)
    /\ ~AtLeast170(lastTaichi.version) => lastTaichi.result = "RuntimeError"

\* A call found an older module already cached, and raised.
C29_Witness ==
  /\ lastTaichi.op = "import_taichi"
  /\ lastTaichi.cached
  /\ lastTaichi.version = <<1, 6, 10>>
  /\ lastTaichi.result = "RuntimeError"

\* C30: between calls of the loader, is_brainpylib_gpu_installed returns True
\* only if some call of import_brainpylib_gpu_ops has returned the handle;
\* after failed calls only, it returns False.
C30_GpuInstalledOnlyAfterSuccess ==
  (Idle /\ is_brainpylib_gpu_installed) => nReturned["gpu"] >= 1

====
